---- MODULE Spec2Model ----
(***************************************************************************)
(* Hangman CLI game: the two variants of the repository.                   *)
(*   variant = "hangman" : src/src/hangman.ts (random word, letter and     *)
(*                          word guesses, playGame exported)               *)
(*   variant = "index"   : src/src/index.ts (fixed word "apple", every     *)
(*                          guess matched against the board letters)       *)
(* A JavaScript string is modelled as a sequence of one-character tokens,  *)
(* so a single letter is the sequence <<"a">> and "" is << >>.             *)
(***************************************************************************)
EXTENDS Integers, Sequences, FiniteSets, TLC

VARIABLES variant, pc, session, hiddenWord, board, livesRemaining,
          guessesMade, guess, console, path, outcome

vars == <<variant, pc, session, hiddenWord, board, livesRemaining,
          guessesMade, guess, console, path, outcome>>

(* ---------------- bounds of the model ---------------- *)

\* number of times a caller invokes the exported playGame of hangman.ts
MaxSessions == 2

(* ---------------- characters and strings ---------------- *)

\* the characters used by the secrets and the guesses, with their UTF-16 code
CharCode ==
  [c \in {"!", "1", "B", "a", "b", "e", "l", "p", "x", "y", "z"} |->
     CASE c = "!" -> 33  [] c = "1" -> 49  [] c = "B" -> 66
       [] c = "a" -> 97  [] c = "b" -> 98  [] c = "e" -> 101
       [] c = "l" -> 108 [] c = "p" -> 112 [] c = "x" -> 120
       [] c = "y" -> 121 [] c = "z" -> 122]

Chars == DOMAIN CharCode

\* the members of the type LowercaseLetter that the model uses
LowercaseLetter == {"a", "b", "e", "l", "p", "x", "y", "z"}

\* words that randomWords() can return
Secrets == { <<"b","e","e">>, <<"b","e">> }

\* lines the player can type in the hangman.ts variant
HangmanInputs ==
  { << >>, <<"b">>, <<"e">>, <<"x">>, <<"y">>, <<"z">>, <<"B">>, <<"1">>,
    <<"!">>, <<"b","e">>, <<"b","e","e">>, <<"b","e","e","x">>,
    <<"B","e","e">> }

\* lines the player can type in the index.ts variant
IndexInputs ==
  { << >>, <<"a">>, <<"p">>, <<"l">>, <<"e">>, <<"z">>, <<"B">>, <<"1">>,
    <<"a","p">>, <<"a","p","p","l","e">> }

Inputs == IF variant = "hangman" THEN HangmanInputs ELSE IndexInputs

\* s < t in the order Array.prototype.sort uses by default (code units)
RECURSIVE StrLess(_, _)
StrLess(s, t) ==
  IF t = << >> THEN FALSE
  ELSE IF s = << >> THEN TRUE
  ELSE IF CharCode[Head(s)] < CharCode[Head(t)] THEN TRUE
  ELSE IF CharCode[Head(s)] > CharCode[Head(t)] THEN FALSE
  ELSE StrLess(Tail(s), Tail(t))

\* Array.prototype.includes
Includes(arr, x) == \E i \in DOMAIN arr : arr[i] = x

(* ---------------- hangman.ts ---------------- *)

StartingLives == 10

boardContainsLetter(b, letterToCheck) ==
  \E i \in DOMAIN b : b[i].letter = letterToCheck

letterSlotForPrint(letterSlot) ==
  IF letterSlot.isRevealed THEN letterSlot.letter ELSE <<"_">>

boardForPrint(b) == [i \in DOMAIN b |-> letterSlotForPrint(b[i])]

\* variant of gameIsOngoing that joins the two conditions with "or"
gameIsOngoing_Or(b, lives) ==
  lives > 0 \/ ~(\A i \in DOMAIN b : b[i].isRevealed)

\* variant of gameIsOngoing that forgets the lives condition
gameIsOngoing_NoLives(b, lives) ==
  ~(\A i \in DOMAIN b : b[i].isRevealed)

gameIsOngoing(b, lives) ==
  LET isWholeBoardRevealed == \A i \in DOMAIN b : b[i].isRevealed
  IN  lives > 0 /\ ~isWholeBoardRevealed

\* variant of isALowercaseLetter whose pattern ignores case (/[a-z]/i)
isALowercaseLetter_IgnoreCase(str) ==
  /\ Len(str) = 1
  /\ \E i \in DOMAIN str :
       \/ CharCode[str[i]] >= 97 /\ CharCode[str[i]] <= 122
       \/ CharCode[str[i]] >= 65 /\ CharCode[str[i]] <= 90

\* variant of isALowercaseLetter without the length test
isALowercaseLetter_NoLength(str) ==
  \E i \in DOMAIN str : CharCode[str[i]] >= 97 /\ CharCode[str[i]] <= 122

isALowercaseLetter(str) ==
  /\ Len(str) = 1
  /\ \E i \in DOMAIN str : CharCode[str[i]] >= 97 /\ CharCode[str[i]] <= 122

\* variant of revealWholeBoard whose loop stops one slot early
revealWholeBoard_SkipLast(b) ==
  [i \in DOMAIN b |->
     IF i < Len(b) THEN [letter |-> b[i].letter, isRevealed |-> TRUE]
                   ELSE b[i]]

revealWholeBoard(b) ==
  [i \in DOMAIN b |-> [letter |-> b[i].letter, isRevealed |-> TRUE]]

\* variant of revealLetter whose test assigns instead of comparing
revealLetter_Assign(b, letterToReveal) ==
  [i \in DOMAIN b |-> [letter |-> letterToReveal, isRevealed |-> TRUE]]

\* variant of revealLetter that stops at the first matching slot
revealLetter_FirstOnly(b, letterToReveal) ==
  [i \in DOMAIN b |->
     IF /\ b[i].letter = letterToReveal
        /\ \A j \in 1..(i-1) : b[j].letter # letterToReveal
       THEN [letter |-> b[i].letter, isRevealed |-> TRUE]
       ELSE b[i]]

revealLetter(b, letterToReveal) ==
  [i \in DOMAIN b |->
     IF b[i].letter = letterToReveal
       THEN [letter |-> b[i].letter, isRevealed |-> TRUE]
       ELSE b[i]]

\* variant of storeGuess that sorts without pushing the guess
storeGuess_NoPush(gm, g) == SortSeq(gm, StrLess)

storeGuess(gm, g) == SortSeq(Append(gm, g), StrLess)

\* variant of wordToBoard that creates the slots already revealed
wordToBoard_Revealed(word) ==
  [i \in DOMAIN word |-> [letter |-> <<word[i]>>, isRevealed |-> TRUE]]

wordToBoard(word) ==
  LET lettersArr == [i \in DOMAIN word |-> <<word[i]>>]
  IN  [i \in DOMAIN lettersArr |->
         [letter |-> lettersArr[i], isRevealed |-> FALSE]]

\* variant of processGuessedLetter that takes a life on a hit as well
processGuessedLetter_AlwaysDecrement(st, letter) ==
  IF \E i \in DOMAIN st.board : st.board[i].letter = letter
    THEN [st EXCEPT !.console = "Bullseye!",
                    !.livesRemaining = st.livesRemaining - 1,
                    !.board = [i \in DOMAIN st.board |->
                      IF st.board[i].letter = letter
                        THEN [letter |-> letter, isRevealed |-> TRUE]
                        ELSE st.board[i]]]
    ELSE [st EXCEPT !.console = "It's not there...",
                    !.livesRemaining = st.livesRemaining - 1]

\* variant of processGuessedLetter whose miss branch keeps the lives
processGuessedLetter_NoDecrement(st, letter) ==
  IF \E i \in DOMAIN st.board : st.board[i].letter = letter
    THEN [st EXCEPT !.console = "Bullseye!",
                    !.board = [i \in DOMAIN st.board |->
                      IF st.board[i].letter = letter
                        THEN [letter |-> letter, isRevealed |-> TRUE]
                        ELSE st.board[i]]]
    ELSE [st EXCEPT !.console = "It's not there..."]

\* st is the module state [hiddenWord, board, livesRemaining, guessesMade]
\* extended with the last console line and the branch taken
processGuessedLetter(st, letter) ==
  IF boardContainsLetter(st.board, letter)
    THEN [st EXCEPT !.console = "Bullseye!",
                    !.board = revealLetter(st.board, letter)]
    ELSE [st EXCEPT !.console = "It's not there...",
                    !.livesRemaining = st.livesRemaining - 1]

\* variant of processGuessedWord whose miss branch keeps the lives
processGuessedWord_FreeMiss(st, word) ==
  IF word = st.hiddenWord
    THEN [st EXCEPT !.console = "Bullseye!",
                    !.board = [i \in DOMAIN st.board |->
                      [letter |-> st.board[i].letter, isRevealed |-> TRUE]]]
    ELSE [st EXCEPT !.console = "That's not the word..."]

\* variant of processGuessedWord that accepts any prefix of the hidden word
processGuessedWord_StartsWith(st, word) ==
  IF /\ Len(word) <= Len(st.hiddenWord)
     /\ SubSeq(st.hiddenWord, 1, Len(word)) = word
    THEN [st EXCEPT !.console = "Bullseye!",
                    !.board = [i \in DOMAIN st.board |->
                      [letter |-> st.board[i].letter, isRevealed |-> TRUE]]]
    ELSE [st EXCEPT !.console = "That's not the word...",
                    !.livesRemaining = st.livesRemaining - 1]

processGuessedWord(st, word) ==
  IF word = st.hiddenWord
    THEN [st EXCEPT !.console = "Bullseye!",
                    !.board = revealWholeBoard(st.board)]
    ELSE [st EXCEPT !.console = "That's not the word...",
                    !.livesRemaining = st.livesRemaining - 1]

\* String.prototype.toLowerCase on the characters of the model
ToLowerCase(str) == [i \in DOMAIN str |-> IF str[i] = "B" THEN "b" ELSE str[i]]

\* variant of handleGuess that lower-cases the guess before using it
handleGuess_LowerCased(st, g) ==
  LET lg == ToLowerCase(g)
      stored == [st EXCEPT !.guessesMade = storeGuess(st.guessesMade, lg)]
  IN  IF isALowercaseLetter(lg)
        THEN processGuessedLetter([stored EXCEPT !.path = "letter"], lg)
        ELSE processGuessedWord([stored EXCEPT !.path = "word"], lg)

handleGuess(st, g) ==
  LET stored == [st EXCEPT !.guessesMade = storeGuess(st.guessesMade, g)]
  IN  IF isALowercaseLetter(g)
        THEN processGuessedLetter([stored EXCEPT !.path = "letter"], g)
        ELSE processGuessedWord([stored EXCEPT !.path = "word"], g)

(* ---------------- index.ts ---------------- *)

ix_StartingLives == 5

ix_word == <<"a","p","p","l","e">>

\* isRevealed is an optional field: absent (undefined) counts as false
ix_isRevealed(letterSlot) ==
  "isRevealed" \in DOMAIN letterSlot /\ letterSlot.isRevealed

ix_boardContainsLetter(b, letterToCheck) ==
  \E i \in DOMAIN b : b[i].letter = letterToCheck

ix_letterSlotForPrint(letterSlot) ==
  IF ix_isRevealed(letterSlot) THEN letterSlot.letter ELSE <<"_">>

ix_boardForPrint(b) == [i \in DOMAIN b |-> ix_letterSlotForPrint(b[i])]

\* variant of ix_gameIsOngoing with an off-by-one lives test
ix_gameIsOngoing_OffByOne(b, lives) ==
  lives >= 0 /\ \E i \in DOMAIN b : ~ix_isRevealed(b[i])

ix_gameIsOngoing(b, lives) ==
  lives > 0 /\ \E i \in DOMAIN b : ~ix_isRevealed(b[i])

\* variant of ix_revealLetter that stops at the first matching slot
ix_revealLetter_FirstOnly(b, letterToReveal) ==
  [i \in DOMAIN b |->
     IF /\ b[i].letter = letterToReveal
        /\ \A j \in 1..(i-1) : b[j].letter # letterToReveal
       THEN [letter |-> b[i].letter, isRevealed |-> TRUE]
       ELSE b[i]]

\* variant of ix_revealLetter that assigns the result of the comparison,
\* hiding every slot that does not match
ix_revealLetter_Exclusive(b, letterToReveal) ==
  [i \in DOMAIN b |->
     [letter |-> b[i].letter, isRevealed |-> (b[i].letter = letterToReveal)]]

ix_revealLetter(b, letterToReveal) ==
  [i \in DOMAIN b |->
     IF b[i].letter = letterToReveal
       THEN [letter |-> b[i].letter, isRevealed |-> TRUE]
       ELSE b[i]]

ix_storeGuess(gm, g) == SortSeq(Append(gm, g), StrLess)

ix_wordToBoard(word) == [i \in DOMAIN word |-> [letter |-> <<word[i]>>]]

ix_handleGuess(st, g) ==
  LET stored == [st EXCEPT !.guessesMade = ix_storeGuess(st.guessesMade, g),
                           !.path = "any"]
  IN  IF ix_boardContainsLetter(stored.board, g)
        THEN [stored EXCEPT !.console = "Bullseye!",
                            !.board = ix_revealLetter(stored.board, g)]
        ELSE [stored EXCEPT !.console = "It's not there...",
                            !.livesRemaining = stored.livesRemaining - 1]

(* ---------------- the state machine ---------------- *)

ModuleState ==
  [hiddenWord |-> hiddenWord, board |-> board,
   livesRemaining |-> livesRemaining, guessesMade |-> guessesMade,
   console |-> console, path |-> path]

\* module load: the top-level let declarations of either file
Init ==
  /\ variant \in {"hangman", "index"}
  /\ pc = "idle"
  /\ session = 0
  /\ hiddenWord = << >>
  /\ board = << >>
  /\ livesRemaining = IF variant = "hangman" THEN StartingLives
                                             ELSE ix_StartingLives
  /\ guessesMade = << >>
  /\ guess = << >>
  /\ console = "none"
  /\ path = "none"
  /\ outcome = "none"

\* hangman.ts playGame, up to the first evaluation of the while condition;
\* the exported function can be called again once a game has finished
PlayGame ==
  /\ variant = "hangman"
  /\ pc \in {"idle", "done"}
  /\ session < MaxSessions
  /\ \E w \in Secrets :
       /\ hiddenWord' = w
       /\ board' = wordToBoard(w)
  /\ session' = session + 1
  /\ pc' = "loop"
  /\ console' = "Let's play hangman!"
  /\ guess' = << >>
  /\ path' = "none"
  /\ outcome' = "none"
  /\ UNCHANGED <<variant, livesRemaining, guessesMade>>

\* index.ts playGame, called once at module load
ix_PlayGame ==
  /\ variant = "index"
  /\ pc = "idle"
  /\ hiddenWord' = ix_word
  /\ board' = ix_wordToBoard(ix_word)
  /\ session' = session + 1
  /\ pc' = "loop"
  /\ console' = "Let's play hangman!"
  /\ UNCHANGED <<variant, livesRemaining, guessesMade, guess, path, outcome>>

Ongoing ==
  IF variant = "hangman" THEN gameIsOngoing(board, livesRemaining)
                         ELSE ix_gameIsOngoing(board, livesRemaining)

\* while (gameIsOngoing()) playRound(): the round prints and prompts
EnterRound ==
  /\ pc = "loop"
  /\ Ongoing
  /\ pc' = "prompt"
  /\ console' = "Your previous guesses:"
  /\ guess' = << >>
  /\ path' = "none"
  /\ UNCHANGED <<variant, session, hiddenWord, board, livesRemaining,
                 guessesMade, outcome>>

\* variant of Finish whose lives test is inverted
Finish_Inverted ==
  /\ pc = "loop"
  /\ ~Ongoing
  /\ outcome' = IF livesRemaining > 0 THEN "Lost" ELSE "Won"
  /\ pc' = "done"
  /\ console' = "The word was"
  /\ UNCHANGED <<variant, session, hiddenWord, board, livesRemaining,
                 guessesMade, guess, path>>

\* the loop has ended: report the outcome
Finish ==
  /\ pc = "loop"
  /\ ~Ongoing
  /\ outcome' = IF livesRemaining = 0 THEN "Lost" ELSE "Won"
  /\ pc' = "done"
  /\ console' = "The word was"
  /\ UNCHANGED <<variant, session, hiddenWord, board, livesRemaining,
                 guessesMade, guess, path>>

\* variant of DuplicateGuess that returns to the loop instead of re-prompting
DuplicateGuess_Returns ==
  /\ pc = "prompt"
  /\ \E g \in Inputs :
       /\ Includes(guessesMade, g)
       /\ guess' = g
  /\ console' = "You've already guessed that! Try a different guess?"
  /\ path' = "duplicate"
  /\ pc' = "loop"
  /\ UNCHANGED <<variant, session, hiddenWord, board, livesRemaining,
                 guessesMade, outcome>>

\* variant of DuplicateGuess that handles the repeated line like a new one
DuplicateGuess_Handled ==
  /\ pc = "prompt"
  /\ \E g \in Inputs :
       /\ Includes(guessesMade, g)
       /\ guess' = g
       /\ LET st == IF variant = "hangman" THEN handleGuess(ModuleState, g)
                                           ELSE ix_handleGuess(ModuleState, g)
          IN  /\ board' = st.board
              /\ livesRemaining' = st.livesRemaining
              /\ guessesMade' = st.guessesMade
              /\ console' = st.console
              /\ path' = st.path
  /\ pc' = "loop"
  /\ UNCHANGED <<variant, session, hiddenWord, outcome>>

\* takeAndHandleGuess reads a line that is already in guessesMade
DuplicateGuess ==
  /\ pc = "prompt"
  /\ \E g \in Inputs :
       /\ Includes(guessesMade, g)
       /\ guess' = g
  /\ console' = "You've already guessed that! Try a different guess?"
  /\ path' = "duplicate"
  /\ pc' = "prompt"
  /\ UNCHANGED <<variant, session, hiddenWord, board, livesRemaining,
                 guessesMade, outcome>>

\* takeAndHandleGuess reads a new line and handleGuess processes it
NewGuess ==
  /\ pc = "prompt"
  /\ \E g \in Inputs :
       /\ ~Includes(guessesMade, g)
       /\ guess' = g
       /\ LET st == IF variant = "hangman" THEN handleGuess(ModuleState, g)
                                           ELSE ix_handleGuess(ModuleState, g)
          IN  /\ board' = st.board
              /\ livesRemaining' = st.livesRemaining
              /\ guessesMade' = st.guessesMade
              /\ console' = st.console
              /\ path' = st.path
  /\ pc' = "loop"
  /\ UNCHANGED <<variant, session, hiddenWord, outcome>>

Next ==
  \/ PlayGame
  \/ ix_PlayGame
  \/ EnterRound
  \/ Finish
  \/ DuplicateGuess
  \/ NewGuess

Spec == Init /\ [][Next]_vars

\* the loop of playGame is synchronous code: once at the loop condition the
\* program goes on to the next round or to the final report; only the
\* prompt waits, for the player
FairSpec == Spec /\ WF_vars(EnterRound) /\ WF_vars(Finish)

(* ---------------- properties ---------------- *)

\* a slot that is not shown to the player
Unrevealed(slot) == ~("isRevealed" \in DOMAIN slot /\ slot.isRevealed = TRUE)

SomeSlotUnrevealed == \E i \in DOMAIN board : Unrevealed(board[i])

\* the step reads a line that is not in the guess log
ReadsNewGuess == pc = "prompt" /\ ~Includes(guessesMade, guess')

\* the step reads a line that is in the guess log
ReadsDuplicate == pc = "prompt" /\ Includes(guessesMade, guess')

IsOneLowercaseLetter(g) == Len(g) = 1 /\ g[1] \in LowercaseLetter

JustStarted == pc = "loop" /\ console = "Let's play hangman!"

\* C1: in both variants gameIsOngoing is true exactly when lives remain and
\* some slot is unrevealed; a round is entered only when it is true and the
\* game is finished only when it is false
C1_OngoingIff ==
  /\ Ongoing <=> (livesRemaining > 0 /\ SomeSlotUnrevealed)
  /\ pc = "prompt" => (livesRemaining > 0 /\ SomeSlotUnrevealed)
  /\ pc = "done" => ~(livesRemaining > 0 /\ SomeSlotUnrevealed)

C1_Witness ==
  /\ variant = "hangman"
  /\ pc = "done"
  /\ livesRemaining = 0
  /\ SomeSlotUnrevealed
  /\ \E i \in DOMAIN board : ~Unrevealed(board[i])

\* C2: a line already in the guess log changes neither the secret, the
\* board, the lives nor the guess log, and is rejected without being handled
C2_DuplicateRejected ==
  [][ReadsDuplicate =>
        /\ hiddenWord' = hiddenWord
        /\ board' = board
        /\ livesRemaining' = livesRemaining
        /\ guessesMade' = guessesMade
        /\ path' = "duplicate"
        /\ pc' = "prompt"]_vars

C2_Witness ==
  /\ variant = "hangman"
  /\ hiddenWord = <<"b","e","e">>
  /\ path = "duplicate"
  /\ guess = <<"e">>
  /\ guessesMade = << <<"e">> >>
  /\ ~Unrevealed(board[2]) /\ ~Unrevealed(board[3])
  /\ livesRemaining = StartingLives

\* C3: a new lowercase letter that occurs in the secret reveals every slot
\* holding it and no other slot, reports a hit and keeps the lives
C3_LetterHit ==
  [][(/\ variant = "hangman"
      /\ ReadsNewGuess
      /\ IsOneLowercaseLetter(guess')
      /\ \E i \in DOMAIN hiddenWord : hiddenWord[i] = guess'[1])
     =>
     (/\ DOMAIN board' = DOMAIN hiddenWord
      /\ \A i \in DOMAIN hiddenWord :
           /\ board'[i].letter = board[i].letter
           /\ IF hiddenWord[i] = guess'[1]
                THEN board'[i].isRevealed = TRUE
                ELSE board'[i].isRevealed = board[i].isRevealed
      /\ console' = "Bullseye!"
      /\ livesRemaining' = livesRemaining)]_vars

C3_Witness ==
  /\ variant = "hangman"
  /\ hiddenWord = <<"b","e","e">>
  /\ pc = "loop"
  /\ guess = <<"e">>
  /\ path = "letter"
  /\ console = "Bullseye!"
  /\ board[1].isRevealed = FALSE
  /\ board[2].isRevealed = TRUE
  /\ board[3].isRevealed = TRUE

\* C4: a new lowercase letter that does not occur in the secret costs
\* exactly one life, reports a miss and leaves the board as it was
C4_LetterMiss ==
  [][(/\ variant = "hangman"
      /\ ReadsNewGuess
      /\ IsOneLowercaseLetter(guess')
      /\ \A i \in DOMAIN hiddenWord : hiddenWord[i] # guess'[1])
     =>
     (/\ livesRemaining' = livesRemaining - 1
      /\ console' = "It's not there..."
      /\ board' = board)]_vars

C4_Witness ==
  /\ variant = "hangman"
  /\ pc = "loop"
  /\ guess = <<"z">>
  /\ path = "letter"
  /\ console = "It's not there..."
  /\ \E i \in DOMAIN board : board[i].isRevealed
  /\ livesRemaining = StartingLives - 1

C6_WordMiss ==
  [][(/\ variant = "hangman"
      /\ ReadsNewGuess
      /\ ~IsOneLowercaseLetter(guess')
      /\ guess' # hiddenWord)
     =>
     (/\ livesRemaining' = livesRemaining - 1
      /\ console' = "That's not the word..."
      /\ board' = board)]_vars

C6_Witness ==
  /\ variant = "hangman"
  /\ hiddenWord = <<"b","e","e">>
  /\ pc = "loop"
  /\ guess = <<"B","e","e">>
  /\ console = "That's not the word..."
  /\ guessesMade = << <<"B","e","e">>, <<"b","e">>, <<"b","e","e","x">> >>
  /\ livesRemaining = StartingLives - 3
  /\ \A i \in DOMAIN board : board[i].isRevealed = FALSE

\* C7: the lives never increase, change by one at a time and are never
\* negative
C7_LivesMonotone ==
  /\ [](livesRemaining >= 0)
  /\ [][livesRemaining' = livesRemaining
        \/ livesRemaining' = livesRemaining - 1]_vars

C7_Witness ==
  /\ variant = "index"
  /\ pc = "done"
  /\ livesRemaining = 0
  /\ outcome = "Lost"

\* C8: every session started by playGame begins with the starting lives
\* and an empty guess log
C8_SessionStartsFresh ==
  (variant = "hangman" /\ JustStarted)
    => (livesRemaining = StartingLives /\ guessesMade = << >>)

\* C9: the board built at game start has one unrevealed slot per character
\* of the secret, in order
C9_BoardFromSecret ==
  (variant = "hangman" /\ JustStarted)
    => /\ Len(board) = Len(hiddenWord)
       /\ \A i \in 1..Len(hiddenWord) :
            /\ board[i].letter = <<hiddenWord[i]>>
            /\ board[i].isRevealed = FALSE

C9_Witness ==
  /\ variant = "hangman"
  /\ JustStarted
  /\ session = 2
  /\ hiddenWord = <<"b","e","e">>
  /\ Len(board) = 3

\* C10: a new guess takes the letter branch exactly when it is one
\* lowercase letter; every other string takes the word branch
C10_Classification ==
  [][(variant = "hangman" /\ ReadsNewGuess)
     =>
     (/\ path' \in {"letter", "word"}
      /\ path' = "letter" <=> IsOneLowercaseLetter(guess'))]_vars

C10_Witness ==
  /\ variant = "hangman"
  /\ path = "word"
  /\ guess = <<"!">>
  /\ guessesMade = << << >>, <<"!">>, <<"1">>, <<"B">>, <<"b","e">> >>
  /\ livesRemaining = StartingLives - 5

\* the game cannot continue: no lives left or nothing left to reveal
Terminal == livesRemaining = 0 \/ ~SomeSlotUnrevealed

\* number of entries of arr equal to x
Count(arr, x) == Cardinality({i \in DOMAIN arr : arr[i] = x})

\* C11: when the loop has ended the outcome is Lost exactly when no lives
\* are left, otherwise Won; Won is reported only with every slot revealed
\* and lives left
C11_Outcome ==
  pc = "done" =>
    /\ outcome \in {"Won", "Lost"}
    /\ outcome = "Lost" <=> livesRemaining = 0
    /\ outcome = "Won" => (~SomeSlotUnrevealed /\ livesRemaining > 0)

C11_Witness ==
  /\ variant = "index"
  /\ pc = "done"
  /\ outcome = "Won"
  /\ livesRemaining = 1
  /\ \A i \in DOMAIN board : ~Unrevealed(board[i])

\* C12: once no lives are left or every slot is revealed, no further guess
\* is read or applied in that session and board, lives and guess log stay
\* as they are
C12_TerminalIsFinal ==
  [][(pc # "idle" /\ Terminal /\ session' = session)
     =>
     (/\ board' = board
      /\ livesRemaining' = livesRemaining
      /\ guessesMade' = guessesMade
      /\ guess' = guess
      /\ pc' # "prompt")]_vars

C12_Witness ==
  /\ variant = "hangman"
  /\ session = 1
  /\ pc = "done"
  /\ outcome = "Won"
  /\ hiddenWord = <<"b","e">>
  /\ guessesMade = << <<"b">>, <<"e">>, <<"z">> >>
  /\ livesRemaining = StartingLives - 1

\* C13: a guess that is not in the guess log is recorded when it is
\* handled, hit or miss, letter or word; the log grows by that one entry
C13_GuessRecorded ==
  [][ReadsNewGuess =>
       /\ Len(guessesMade') = Len(guessesMade) + 1
       /\ \A x \in Inputs :
            Count(guessesMade', x) =
              Count(guessesMade, x) + (IF x = guess' THEN 1 ELSE 0)]_vars

C13_Witness ==
  /\ variant = "hangman"
  /\ hiddenWord = <<"b","e","e">>
  /\ guess = <<"b","e","e">>
  /\ path = "word"
  /\ console = "Bullseye!"
  /\ guessesMade = << <<"b">>, <<"b","e">>, <<"b","e","e">>, <<"z">> >>
  /\ livesRemaining = StartingLives - 2

\* C14: during a session the board has the length of the secret and slot i
\* holds the i-th character of the secret; the secret does not change
C14_BoardMatchesSecret ==
  /\ [](pc # "idle" =>
          /\ Len(board) = Len(hiddenWord)
          /\ \A i \in 1..Len(hiddenWord) : board[i].letter = <<hiddenWord[i]>>)
  /\ [][session' = session => hiddenWord' = hiddenWord]_vars

C14_Witness ==
  /\ variant = "hangman"
  /\ hiddenWord = <<"b","e","e">>
  /\ pc = "loop"
  /\ guess = <<"b">>
  /\ console = "Bullseye!"
  /\ Includes(guessesMade, <<"x">>)
  /\ Includes(guessesMade, <<"e">>)
  /\ board[1].letter = <<"b">> /\ board[2].letter = <<"e">>

HitLine == console' = "Bullseye!"

MissLine == console' \in {"It's not there...", "That's not the word..."}

\* C15: Playing is left either by a miss taking the lives from 1 to 0 with
\* some slot still unrevealed, or by a hit revealing the last unrevealed
\* slots with lives left; lives = 0 never coincides with a full board
C15_LeavingPlaying ==
  /\ [](~(livesRemaining = 0 /\ ~SomeSlotUnrevealed))
  /\ [](pc = "prompt" => (livesRemaining > 0 /\ SomeSlotUnrevealed))
  /\ [][(pc = "prompt" /\ pc' = "loop" /\ Terminal')
        =>
        (\/ /\ MissLine
            /\ livesRemaining = 1 /\ livesRemaining' = 0
            /\ board' = board
            /\ SomeSlotUnrevealed'
         \/ /\ HitLine
            /\ ~SomeSlotUnrevealed'
            /\ livesRemaining' = livesRemaining
            /\ livesRemaining' > 0)]_vars

C15_Witness ==
  /\ variant = "index"
  /\ pc = "loop"
  /\ livesRemaining = 0
  /\ console = "It's not there..."
  /\ ~Unrevealed(board[2]) /\ ~Unrevealed(board[3])
  /\ Unrevealed(board[1])

\* C16: a new empty line, or a new line with a character outside a-z, is
\* a word guess that misses: one life, no slot revealed, recorded in the
\* log, and the game goes on normally
C16_BadInputMisses ==
  [][(/\ variant = "hangman"
      /\ ReadsNewGuess
      /\ \/ guess' = << >>
         \/ \E i \in DOMAIN guess' : guess'[i] \notin LowercaseLetter)
     =>
     (/\ path' = "word"
      /\ console' = "That's not the word..."
      /\ livesRemaining' = livesRemaining - 1
      /\ board' = board
      /\ Includes(guessesMade', guess')
      /\ pc' = "loop"
      /\ outcome' = "none")]_vars

C16_Witness ==
  /\ variant = "hangman"
  /\ hiddenWord = <<"b","e">>
  /\ pc = "loop"
  /\ guess = << >>
  /\ path = "word"
  /\ guessesMade = << << >>, <<"B","e","e">>, <<"b">> >>
  /\ livesRemaining = StartingLives - 2
  /\ board[1].isRevealed /\ ~board[2].isRevealed

\* the uppercase form of a letter, where the model has one
HasUpper == {"b"}

ToUpper(c) == IF c = "b" THEN "B" ELSE c

\* C17: matching is case-sensitive: the uppercase form of a letter of the
\* board is not a duplicate of that letter, reveals nothing and costs a
\* life; and having guessed the uppercase form does not stop the lowercase
\* letter from being accepted and revealing its slots
C17_CaseSensitive ==
  [][\A L \in HasUpper :
       (/\ variant = "hangman"
        /\ pc = "prompt"
        /\ \E i \in DOMAIN hiddenWord : hiddenWord[i] = L)
       =>
       /\ (guess' = <<ToUpper(L)>> /\ ~Includes(guessesMade, <<ToUpper(L)>>))
            => /\ path' # "duplicate"
               /\ board' = board
               /\ livesRemaining' = livesRemaining - 1
       /\ (guess' = <<L>> /\ ~Includes(guessesMade, <<L>>))
            => /\ path' # "duplicate"
               /\ \A i \in DOMAIN hiddenWord :
                    hiddenWord[i] = L => board'[i].isRevealed = TRUE
               /\ livesRemaining' = livesRemaining]_vars

C17_Witness ==
  /\ variant = "hangman"
  /\ hiddenWord = <<"b","e","e">>
  /\ pc = "loop"
  /\ guess = <<"b">>
  /\ path = "letter"
  /\ console = "Bullseye!"
  /\ guessesMade = << <<"B">>, <<"b">> >>
  /\ livesRemaining = StartingLives - 1
  /\ board[1].isRevealed

NoDuplicates(arr) ==
  \A i, j \in DOMAIN arr : arr[i] = arr[j] => i = j

SortedAscending(arr) ==
  \A i \in 1..(Len(arr) - 1) : ~StrLess(arr[i+1], arr[i])

SetOf(arr) == {arr[i] : i \in DOMAIN arr}

\* C18: in a session the guess log has no string twice, is in ascending
\* order, and as a set is the set of the guesses accepted so far in the
\* session: empty when the session starts, and each step adds exactly the
\* guess it accepts
C18_LogIsSessionSet ==
  /\ [](NoDuplicates(guessesMade) /\ SortedAscending(guessesMade))
  /\ [](JustStarted => SetOf(guessesMade) = {})
  /\ [][session' = session =>
          SetOf(guessesMade') =
            SetOf(guessesMade) \cup
              (IF pc = "prompt" /\ pc' = "loop" THEN {guess'} ELSE {})]_vars

\* C19: a repeated line is answered by another prompt in the same round:
\* the loop condition is not re-evaluated, the session does not end, no
\* life is lost and no outcome is reported, however often it happens
C19_DuplicateReprompts ==
  /\ [](path = "duplicate" =>
          /\ pc = "prompt"
          /\ outcome = "none"
          /\ livesRemaining > 0
          /\ SomeSlotUnrevealed)
  /\ [][ReadsDuplicate =>
          /\ pc' = "prompt"
          /\ session' = session
          /\ livesRemaining' = livesRemaining
          /\ outcome' = "none"
          /\ console' = "You've already guessed that! Try a different guess?"]_vars

C19_Witness ==
  /\ variant = "index"
  /\ pc = "prompt"
  /\ path = "duplicate"
  /\ guess = <<"p">>
  /\ guessesMade = << <<"p">> >>
  /\ ~Unrevealed(board[2]) /\ ~Unrevealed(board[3])
  /\ livesRemaining = ix_StartingLives

RevealedCount(b) == Cardinality({i \in DOMAIN b : ~Unrevealed(b[i])})

DistinctLetters(word) == Cardinality({word[i] : i \in DOMAIN word})

ConfiguredLives == IF variant = "hangman" THEN StartingLives
                                          ELSE ix_StartingLives

\* C20: every accepted guess either takes exactly one life or reveals at
\* least one more slot, never both and never neither; a session that
\* starts with N lives and a secret of D distinct letters accepts at most
\* N + D - 1 guesses; and if every prompt eventually receives a new guess
\* the session eventually ends
C20_Progress ==
  /\ [][(pc = "prompt" /\ pc' = "loop")
        =>
        (\/ /\ livesRemaining' = livesRemaining - 1
            /\ RevealedCount(board') = RevealedCount(board)
         \/ /\ livesRemaining' = livesRemaining
            /\ RevealedCount(board') > RevealedCount(board))]_vars
  /\ [](session = 1 =>
          Len(guessesMade) <= ConfiguredLives + DistinctLetters(hiddenWord) - 1)
  /\ ((pc = "prompt") ~> (pc = "loop"))
       => ((pc \in {"loop", "prompt"}) ~> (pc = "done"))

C20_Witness ==
  /\ variant = "hangman"
  /\ session = 1
  /\ hiddenWord = <<"b","e","e">>
  /\ pc = "done"
  /\ outcome = "Won"
  /\ Len(guessesMade) = StartingLives + 2 - 1
  /\ livesRemaining = 1

\* C21: within a session a revealed slot stays revealed: no guess, hit,
\* miss or duplicate, hides a slot, so the revealed positions only grow
C21_RevealsPersist ==
  [][session' = session =>
       \A i \in DOMAIN board :
         ~Unrevealed(board[i]) =>
           (i \in DOMAIN board' /\ ~Unrevealed(board'[i]))]_vars

C21_Witness ==
  /\ variant = "index"
  /\ pc = "prompt"
  /\ path = "duplicate"
  /\ guess = <<"z">>
  /\ guessesMade = << <<"a">>, <<"l">>, <<"z">> >>
  /\ ~Unrevealed(board[1]) /\ ~Unrevealed(board[4])
  /\ Unrevealed(board[2])
  /\ livesRemaining = ix_StartingLives - 1

\* the board as hangman.ts holds it: every slot has an isRevealed flag
AsHangmanBoard(b) ==
  [i \in DOMAIN b |-> [letter |-> b[i].letter, isRevealed |-> ~Unrevealed(b[i])]]

\* the board as index.ts holds it: isRevealed is absent until set
AsIndexBoard(b) ==
  [i \in DOMAIN b |->
     IF Unrevealed(b[i]) THEN [letter |-> b[i].letter]
                         ELSE [letter |-> b[i].letter, isRevealed |-> TRUE]]

\* what the player sees of a board: the letter and whether it is shown
Shown(b) == [i \in DOMAIN b |-> <<b[i].letter, ~Unrevealed(b[i])>>]

AllInputs == HangmanInputs \cup IndexInputs

\* the result of handleGuess of hangman.ts on the current state
HangmanResult(g) ==
  handleGuess([ModuleState EXCEPT !.board = AsHangmanBoard(board)], g)

\* the result of handleGuess of index.ts on the current state
IndexResult(g) ==
  ix_handleGuess([ModuleState EXCEPT !.board = AsIndexBoard(board)], g)

\* C22: from the same secret, lives and guess log, handleGuess of
\* hangman.ts and handleGuess of index.ts give the same board, lives and
\* guess log for every guess, except a guess of two or more characters
\* equal to the secret: a hit revealing the whole board in hangman.ts, a
\* miss costing a life in index.ts
C22_VariantsAgree ==
  pc = "prompt" =>
    \A g \in AllInputs :
      LET h  == HangmanResult(g)
          ix == IndexResult(g)
      IN  IF Len(g) >= 2 /\ g = hiddenWord
            THEN /\ \A i \in DOMAIN h.board : h.board[i].isRevealed = TRUE
                 /\ h.livesRemaining = livesRemaining
                 /\ Shown(ix.board) = Shown(board)
                 /\ ix.livesRemaining = livesRemaining - 1
                 /\ h.guessesMade = ix.guessesMade
            ELSE /\ Shown(h.board) = Shown(ix.board)
                 /\ h.livesRemaining = ix.livesRemaining
                 /\ h.guessesMade = ix.guessesMade

C22_Witness ==
  /\ variant = "hangman"
  /\ pc = "prompt"
  /\ hiddenWord = <<"b","e","e">>
  /\ guessesMade = << <<"b">>, <<"z">> >>
  /\ Shown(HangmanResult(<<"e">>).board) = Shown(IndexResult(<<"e">>).board)
  /\ \A i \in DOMAIN board : ~Unrevealed(IndexResult(<<"e">>).board[i])
  /\ HangmanResult(<<"B">>).livesRemaining = livesRemaining - 1
  /\ IndexResult(<<"B">>).livesRemaining = livesRemaining - 1
  /\ HangmanResult(<<"b","e","e">>).livesRemaining = livesRemaining
  /\ IndexResult(<<"b","e","e">>).livesRemaining = livesRemaining - 1

====
